---- MODULE Spec2Model ----
(***************************************************************************)
(* The IPFS Podcasting updater (cmd/updater/main.go, the revision with the *)
(* fallback resolver and the metrics hook, lines 691-1527): the polling    *)
(* loop of main, one cycle of doWork, the fallback resolver                *)
(* downloadOrPinFile, downloadFile with its producer goroutine, pinFile,   *)
(* pinDelete and the two coordinator calls.                                *)
(*                                                                         *)
(* Every call that leaves the process (storage node RPC, HTTP GET,         *)
(* coordinator POST) is one action whose outcome is chosen from a small    *)
(* set; `calls` is the list of those calls made so far in the cycle.       *)
(* Go strings that the code slices or searches are tuples of characters;   *)
(* a nil pointer is the empty set and a pointer to v is {v}.               *)
(***************************************************************************)
EXTENDS Integers, Sequences, FiniteSets, TLC

\* ------------------------------------------------------------------ bounds
\* an ls answer holds at most MaxObjects objects, its first at most MaxLinks links
MaxObjects == 2
MaxLinks == 2

\* ------------------------------------------------------- program constants
\* retries := 5 in requestWork and responseWork
Retries == 5
\* url.Path[6:52]
CidStart == 6
CidEnd == 52
\* "/ipfs/<cid = 46>/..."; the length go-cid takes for a CIDv0
CidLen == 46

\* ------------------------------------------------------------ Go strings
RECURSIVE Str(_)
\* the Go string of a tuple of characters
Str(cs) == IF cs = <<>> THEN "" ELSE Head(cs) \o Str(Tail(cs))

RECURSIVE Rep(_, _)
Rep(c, n) == IF n = 0 THEN <<>> ELSE <<c>> \o Rep(c, n - 1)

\* strings.HasPrefix
HasPrefix(s, p) == Len(s) >= Len(p) /\ SubSeq(s, 1, Len(p)) = p

\* strings.Contains
Contains(s, sub) ==
    \E i \in 0..(Len(s) - Len(sub)) : SubSeq(s, i + 1, i + Len(sub)) = sub

Digits == <<"0", "1", "2", "3", "4", "5", "6", "7", "8", "9">>

RECURSIVE Itoa(_)
\* strconv.Itoa
Itoa(n) ==
    IF n < 0 THEN "-" \o Itoa(0 - n)
    ELSE IF n < 10 THEN Digits[n + 1]
    ELSE Itoa(n \div 10) \o Digits[(n % 10) + 1]

boolToStr(b) == IF b THEN "true" ELSE "false"

EOF == <<"E", "O", "F">>
NotPinnedText ==
    <<"n","o","t"," ","p","i","n","n","e","d"," ","o","r"," ",
      "p","i","n","n","e","d"," ","i","n","d","i","r","e","c","t","l","y">>
IpfsPrefix == <<"/", "i", "p", "f", "s", "/">>

\* ---------------------------------------------------------------- inputs
\* error texts of a failed coordinator POST
PostErrTexts ==
    { <<"u","n","e","x","p","e","c","t","e","d"," ","E","O","F">>,
      <<"r","e","f","u","s","e","d">> }

\* error texts of a failed pin/rm
RmNotPinnedText == <<"p","i","n","/","r","m",":"," ">> \o NotPinnedText
RmTimeoutText == <<"t","i","m","e","o","u","t">>
RmErrTexts == { RmNotPinnedText, RmTimeoutText }

Nil == {}
Ptr(v) == {v}

\* the base58 alphabet of a CIDv0
Base58 ==
    {
      "1", "2", "3", "4", "5", "6", "7", "8", "9", "A", "B", "C", "D",
      "E", "F", "G", "H", "J", "K", "L", "M", "N", "P", "Q", "R", "S",
      "T", "U", "V", "W", "X", "Y", "Z", "a", "b", "c", "d", "e", "f",
      "g", "h", "i", "j", "k", "m", "n", "o", "p", "q", "r", "s", "t",
      "u", "v", "w", "x", "y", "z" }

HexDigits ==
    {
      "0", "1", "2", "3", "4", "5", "6", "7", "8", "9", "a", "b", "c",
      "d", "e", "f", "A", "B", "C", "D", "E", "F" }

VARIABLES
    pc,            \* position of the single worker in main / doWork and callees
    workResponse,  \* doWork's copy of the WorkResponse
    observed,      \* the receiver copied by `defer workResponse.ObserveJob(start)`
    work,          \* the Work decoded by requestWork in this cycle, or in the
                   \* last one while main sleeps
    retries,       \* retries left in requestWork / responseWork
    failedPosts,   \* transport failures in a row of the coordinator call
    lastErr,       \* error text of the last of them
    calls,         \* calls made to the outside in this cycle, in order; a
                   \* coordinator call with its retries is one entry, made
                   \* when it returns
    invoked,       \* the directive functions doWork called in this cycle, in order
    requestForm,   \* form posted to /request in this cycle ({} = none)
    reportForm,    \* form posted to /response in this cycle ({} = none)
    ret,           \* what doWork returned
    events,        \* metrics.ObserveJob calls of this cycle
    slept,         \* the sleep main entered after the cycle ("none" during a cycle)
    dlAttempt,     \* downloadOrPinFile: 0 not running, 1 first downloadFile, 2 the retry
    pfCtx,         \* who called pinFile: "pin" (doWork) or "download" (the fallback)
    pfHash,        \* pinFile's argument
    prod,          \* position of downloadFile's producer goroutine
    mpwCreateFormFileErr,  \* the goroutine's three error variables (TRUE = non-nil)
    copyErr,
    mpwCloseErr,
    closeRes,      \* what reqMultipart.Close() returned, not yet assigned
    boundary,      \* the closing multipart boundary has been written to the pipe
    added          \* the records of the add answer

post == <<retries, failedPosts, lastErr>>
main == <<pc, workResponse, observed, work, post, calls, invoked,
          requestForm, reportForm, ret, events, slept>>
dlVars == <<dlAttempt, pfCtx, pfHash>>
prodVars == <<prod, mpwCreateFormFileErr, copyErr, mpwCloseErr, closeRes,
              boundary, added>>
vars == <<main, dlVars, prodVars>>


\* ------------------------------------------------------ records and inputs
\* the WorkResponse main builds once and passes by value to every doWork
workRequest ==
    [ Email |-> "e@x", Version |-> "0.6g",
      IPFSID |-> "", IPFSVersion |-> "", Online |-> FALSE, Peers |-> 0,
      Downloaded |-> Nil, Length |-> Nil, Error |-> Nil, Pinned |-> Nil,
      Deleted |-> Nil, Used |-> Nil, Avail |-> Nil ]

\* the zero Work
NoJob ==
    [ Download |-> <<>>, Filename |-> "", Pin |-> "", Delete |-> "",
      Message |-> "" ]

\* download URLs the coordinator may send: scheme and host, then the path
Host == <<"h", ":", "/", "/", "x">>
ValidCid == <<"Q", "m">> \o Rep("a", CidLen - 2)
\* '0' is not in the base58 alphabet
BadCid == <<"Q", "m">> \o Rep("0", CidLen - 2)
UrlPlain == Host \o <<"/", "e", "p", ".", "m", "p", "3">>
UrlIpfsValid == Host \o IpfsPrefix \o ValidCid \o <<"/", "e">>
UrlIpfsBadCid == Host \o IpfsPrefix \o BadCid \o <<"/", "e">>
UrlIpfsShort == Host \o IpfsPrefix \o Rep("a", CidLen - 1)
UrlBadEscape == Host \o <<"/", "%", "z", "z">>
Urls ==
    { UrlPlain, UrlIpfsValid, UrlIpfsBadCid, UrlIpfsShort, UrlBadEscape }

\* the Work records the coordinator may answer with: every combination of
\* the fields, a pin directive or a missing filename going with no download
\* or the plain one
Jobs ==
    { w \in [ Download : {<<>>} \cup Urls, Filename : {"", "ep.mp3"},
              Pin : {"", "QmPin"}, Delete : {"", "QmDel"},
              Message : {"", "No Work"} ] :
        (w.Pin # "" \/ w.Filename = "") => w.Download \in {<<>>, UrlPlain} }

NodeIDs == {"12D3KooW"}
IPFSVersions == {"0.23.0"}
PeerCounts == {12}

Call(op, ctx, arg, ok) == [op |-> op, ctx |-> ctx, arg |-> arg, ok |-> ok]
\* an ls that was answered, with the lsResponse decoded from the answer
LsCall(ctx, arg, lsResp) ==
    [op |-> "ls", ctx |-> ctx, arg |-> arg, ok |-> TRUE, answer |-> lsResp]

\* ---------------------------------------------------------- WorkResponse
\* WorkResponse.Reader: the form as a set of <<key, value>> pairs
Reader(r) ==
    { <<"email", r.Email>>, <<"version", r.Version>>,
      <<"ipfs_id", r.IPFSID>>, <<"ipfs_ver", r.IPFSVersion>>,
      <<"online", boolToStr(r.Online)>>, <<"peers", Itoa(r.Peers)>> }
    \cup { <<"downloaded", v>> : v \in r.Downloaded }
    \cup { <<"length", Itoa(v)>> : v \in r.Length }
    \cup { <<"error", Itoa(v)>> : v \in r.Error }
    \cup { <<"pinned", v>> : v \in r.Pinned }
    \cup { <<"deleted", v>> : v \in r.Deleted }
    \cup { <<"used", Itoa(v)>> : v \in r.Used }
    \cup { <<"avail", Itoa(v)>> : v \in r.Avail }

\* metrics.ObserveJob: the labels of the observation (the duration is not modelled)
MetricsObserveJob(jobType, isErr) ==
    [job_type |-> jobType, status |-> IF isErr THEN "error" ELSE "success"]

\* WorkResponse.ObserveJob on receiver r
ObserveJob(r) ==
    LET isErr == r.Error # Nil
    IN  { MetricsObserveJob("download", isErr) : v \in r.Downloaded }
        \cup { MetricsObserveJob("pin", isErr) : v \in r.Pinned }
        \cup { MetricsObserveJob("delete", isErr) : v \in r.Deleted }

\* ------------------------------------------------------------------- Init
Init ==
    /\ pc = "loop"
    /\ workResponse = workRequest
    /\ observed = workRequest
    /\ work = NoJob
    /\ retries = 0
    /\ failedPosts = 0
    /\ lastErr = <<>>
    /\ calls = <<>>
    /\ invoked = <<>>
    /\ requestForm = {}
    /\ reportForm = {}
    /\ ret = [complete |-> FALSE, err |-> ""]
    /\ events = {}
    /\ slept = "none"
    /\ dlAttempt = 0
    /\ pfCtx = ""
    /\ pfHash = ""
    /\ prod = "none"
    /\ mpwCreateFormFileErr = FALSE
    /\ copyErr = FALSE
    /\ mpwCloseErr = FALSE
    /\ closeRes = FALSE
    /\ boundary = FALSE
    /\ added = <<>>

\* doWork returns (complete, err): the deferred ObserveJob runs on the copy
\* of the receiver taken when the defer statement executed
Return(complete, err) ==
    /\ pc' = "returned"
    /\ ret' = [complete |-> complete, err |-> err]
    /\ events' = ObserveJob(observed)

\* ------------------------------------------------------------------- main
\* a doWork that works on the WorkResponse the previous cycle left
PassedByReference(held) == held

\* doWork(client, httpClient, workRequest): the parameter is a struct passed
\* by value, a new copy of main's workRequest whatever the last copy held
PassedToDoWork(held) == workRequest

\* a main that calls doWork again as soon as it has returned
CallsDoWorkUnslept(at) == at \in {"loop", "returned"}

\* where main is when it calls doWork: at the top of the for loop, which it
\* reaches at the start and after each time.Sleep
CallsDoWork(at) == at = "loop"

\* for { nextUpdate := ...; complete, err := doWork(client, httpClient, workRequest)
\* doWork gets a copy of workRequest and defers ObserveJob on a copy of that
MainLoop ==
    /\ CallsDoWork(pc)
    /\ pc' = "nodeID"
    /\ workResponse' = PassedToDoWork(workResponse)
    /\ observed' = workRequest
    /\ ret' = [complete |-> FALSE, err |-> ""]
    /\ events' = {}
    /\ slept' = "none"
    /\ work' = NoJob
    /\ UNCHANGED <<post, calls, invoked, requestForm, reportForm>>
    /\ UNCHANGED <<dlVars, prodVars>>

\* the earlier revision of main (main.go:79-84):
\* if completed { time.Sleep(5 * time.Second); continue }
SleepAfterCompleted(complete) ==
    IF complete THEN "short" ELSE "untilNextUpdate"

\* time.Sleep(time.Until(nextUpdate)), whatever doWork returned
SleepAfter(complete) == "untilNextUpdate"

\* slog.Info("job finished"); time.Sleep(time.Until(nextUpdate)); doWork's
\* calls are over; what it returned and observed stays, and so do the Work
\* it had received and its copy of the WorkResponse, until the next cycle
\* starts
MainSleep ==
    /\ pc = "returned"
    /\ pc' = "loop"
    /\ slept' = SleepAfter(ret.complete)
    /\ observed' = workRequest
    /\ retries' = 0
    /\ failedPosts' = 0
    /\ lastErr' = <<>>
    /\ calls' = <<>>
    /\ invoked' = <<>>
    /\ requestForm' = {}
    /\ reportForm' = {}
    /\ UNCHANGED <<workResponse, work, ret, events>>
    /\ UNCHANGED <<dlVars, prodVars>>

\* ----------------------------------------------------------- getKuboStats
AbortsNever(ok) == FALSE

\* if err != nil { return fmt.Errorf(...) }, and doWork's own
\* if err != nil { return false, ... }
Aborts(ok) == ~ok

NodeID ==
    /\ pc = "nodeID"
    /\ \E ok \in BOOLEAN, id \in NodeIDs :
        /\ calls' = Append(calls, Call("id", "status", "", ok))
        /\ IF Aborts(ok)
           THEN /\ Return(FALSE, "get kubo stats failed")
                /\ UNCHANGED workResponse
           ELSE /\ workResponse' = [workResponse EXCEPT !.IPFSID = id]
                /\ pc' = "diagSys"
                /\ UNCHANGED <<ret, events>>
    /\ UNCHANGED <<observed, work, post, invoked, requestForm, reportForm, slept>>
    /\ UNCHANGED <<dlVars, prodVars>>

DiagSys ==
    /\ pc = "diagSys"
    /\ \E ok \in BOOLEAN, ver \in IPFSVersions, online \in BOOLEAN :
        /\ calls' = Append(calls, Call("diag/sys", "status", "", ok))
        /\ IF Aborts(ok)
           THEN /\ Return(FALSE, "get kubo stats failed")
                /\ UNCHANGED workResponse
           ELSE /\ workResponse' = [workResponse EXCEPT !.IPFSVersion = ver,
                                                        !.Online = online]
                /\ pc' = "getPeers"
                /\ UNCHANGED <<ret, events>>
    /\ UNCHANGED <<observed, work, post, invoked, requestForm, reportForm, slept>>
    /\ UNCHANGED <<dlVars, prodVars>>

\* the last query of getKuboStats; then requestWork starts with its retries
GetPeers ==
    /\ pc = "getPeers"
    /\ \E ok \in BOOLEAN, peers \in PeerCounts :
        /\ calls' = Append(calls, Call("swarm/peers", "status", "", ok))
        /\ IF Aborts(ok)
           THEN /\ Return(FALSE, "get kubo stats failed")
                /\ UNCHANGED <<workResponse, retries>>
           ELSE /\ workResponse' = [workResponse EXCEPT !.Peers = peers]
                /\ pc' = "requestWork"
                /\ retries' = Retries
                /\ UNCHANGED <<ret, events>>
    /\ UNCHANGED <<observed, work, failedPosts, lastErr, invoked, requestForm,
                   reportForm, slept>>
    /\ UNCHANGED <<dlVars, prodVars>>

\* ------------------------------------------------------------ requestWork
\* a retry test that does not look at the error text
ShouldRetryAny(left, text) == left > 0

\* a retry test that does not count the retries
ShouldRetryForever(left, text) == Contains(text, EOF)

\* if retries > 0 && strings.Contains(err.Error(), "EOF")
ShouldRetry(left, text) == left > 0 /\ Contains(text, EOF)

IsNoWorkNever(w) == FALSE

\* if work.Message == "No Work"
\* a doWork that takes the marker for idle only when the Work holds nothing
\* else
IsNoWorkAlone(w) ==
    /\ w.Message = "No Work"
    /\ w.Download = <<>> /\ w.Pin = "" /\ w.Delete = ""

\* a doWork that is idle also when the Work holds no directive
IsNoWorkOrEmpty(w) ==
    \/ w.Message = "No Work"
    \/ /\ w.Download = <<>> \/ w.Filename = ""
       /\ w.Pin = ""
       /\ w.Delete = ""

\* if work.Message == "No Work"
IsNoWork(w) == w.Message = "No Work"

\* one POST of requestWork fails in transport with error text `text`
RequestWorkError ==
    /\ pc = "requestWork"
    /\ \E text \in PostErrTexts :
        /\ requestForm' = Reader(workResponse)
        /\ failedPosts' = failedPosts + 1
        /\ lastErr' = text
        /\ IF ShouldRetry(retries, text)
           THEN /\ retries' = retries - 1
                /\ UNCHANGED <<pc, ret, events, calls>>
           ELSE /\ calls' = Append(calls, Call("POST /request", "request", "", FALSE))
                /\ Return(FALSE, "requesting work failed")
                /\ retries' = 0
    /\ UNCHANGED <<workResponse, observed, work, invoked, reportForm, slept>>
    /\ UNCHANGED <<dlVars, prodVars>>

\* a requestWork that posts again, while it has retries left, when the answer
\* does not decode
DecodeErrorRetried(left) == left > 0

\* whether requestWork posts again after an answer that does not decode,
\* with `left` retries left: the decode error is returned at once
DecodeErrorRetry(left) == FALSE

\* one POST of requestWork is answered, with a body that does not decode
RequestWorkMalformed ==
    /\ pc = "requestWork"
    /\ calls' = Append(calls, Call("POST /request", "request", "malformed", FALSE))
    /\ requestForm' = Reader(workResponse)
    /\ IF DecodeErrorRetry(retries)
       THEN /\ retries' = retries - 1
            /\ UNCHANGED <<pc, ret, events>>
       ELSE /\ Return(FALSE, "requesting work failed")
            /\ retries' = 0
    /\ failedPosts' = 0
    /\ lastErr' = <<>>
    /\ UNCHANGED <<workResponse, observed, work, invoked, reportForm, slept>>
    /\ UNCHANGED <<dlVars, prodVars>>

\* one POST of requestWork is answered with a Work; doWork then tests the
\* no-work marker
RequestWorkAnswer ==
    /\ pc = "requestWork"
    /\ \E w \in Jobs :
        /\ calls' = Append(calls, Call("POST /request", "request", "", TRUE))
        /\ requestForm' = Reader(workResponse)
        /\ work' = w
        /\ IF IsNoWork(w)
           THEN Return(FALSE, "")
           ELSE pc' = "download" /\ UNCHANGED <<ret, events>>
    /\ retries' = 0
    /\ failedPosts' = 0
    /\ lastErr' = <<>>
    /\ UNCHANGED <<workResponse, observed, invoked, reportForm, slept>>
    /\ UNCHANGED <<dlVars, prodVars>>

\* -------------------------------------------------- url.Parse, cid.Decode
\* index of the first c in s, 0 when there is none
Index(s, c) ==
    IF \E i \in 1..Len(s) : s[i] = c
    THEN CHOOSE i \in 1..Len(s) : s[i] = c /\ \A j \in 1..(i - 1) : s[j] # c
    ELSE 0

DropTo(s, i) == SubSeq(s, i, Len(s))

\* every '%' of the path starts a two-digit hex escape
ValidEscapes(path) ==
    \A i \in 1..Len(path) :
        path[i] = "%" =>
            /\ i + 2 <= Len(path)
            /\ path[i + 1] \in HexDigits
            /\ path[i + 2] \in HexDigits

\* url.Parse(download), as far as the inputs go: "scheme://host" then the
\* path up to a '?'; an invalid escape is a parse error (the inputs hold no
\* valid escape, so the path is not unescaped)
UrlParse(raw) ==
    LET colon == Index(raw, ":")
        rest == DropTo(raw, colon + 1)
        afterHost ==
            IF HasPrefix(rest, <<"/", "/">>)
            THEN LET r == DropTo(rest, 3)
                     slash == Index(r, "/")
                 IN  IF slash = 0 THEN <<>> ELSE DropTo(r, slash)
            ELSE rest
        q == Index(afterHost, "?")
        path == IF q = 0 THEN afterHost ELSE SubSeq(afterHost, 1, q - 1)
    IN  [ok |-> ValidEscapes(path), Path |-> path]

\* cid.Decode on a CidLen-character segment: a CIDv0 is "Qm" and base58
\* characters, and prints back as itself
CidDecode(seg) ==
    [ ok |-> /\ Len(seg) = CidLen
             /\ HasPrefix(seg, <<"Q", "m">>)
             /\ \A i \in 1..Len(seg) : seg[i] \in Base58,
      String |-> Str(seg) ]

\* ------------------------------------------------------- the storage node
LinkSizes == {1000}

\* an ls answer of n objects whose first holds l links, every link of size s
LsAnswer(n, l, s) ==
    [ Objects |->
        [ j \in 1..n |->
            [ Hash |-> "QmObj" \o Itoa(j),
              Links |-> [ k \in 1..(IF j = 1 THEN l ELSE 1) |->
                            [Hash |-> "QmL" \o Itoa(k), Size |-> s] ] ] ] ]

LsAnswers ==
    { LsAnswer(n, l, s) : n \in 0..MaxObjects, l \in 0..MaxLinks, s \in LinkSizes }

\* the two records of an add with wrap-with-directory, possibly cut short
AddAnswers(filename) ==
    LET file == [Name |-> filename, Hash |-> "QmFile", Size |-> 1013]
        dir == [Name |-> "", Hash |-> "QmDir", Size |-> 1066]
    IN  { <<>>, <<file>>, <<file, dir>> }

StatusCodes == {200, 404}

RepoStatsAnswers == { [RepoSize |-> 5, StorageMax |-> 10] }

RECURSIVE SumSizes(_)
SumSizes(links) ==
    IF links = <<>> THEN 0 ELSE Head(links).Size + SumSizes(Tail(links))

RECURSIVE TotalSize(_)
TotalSize(objects) ==
    IF objects = <<>> THEN 0
    ELSE SumSizes(Head(objects).Links) + TotalSize(Tail(objects))

\* fileSize, on the answer of ls
fileSize(lsResp) == TotalSize(lsResp.Objects)

\* pinFile after ls answered: "panic" (index out of range), "error" or "ok"
PinFileCheck(lsResp) ==
    LET objects == lsResp.Objects
    IN  IF Len(objects) # 1
        THEN IF Len(objects) = 0 THEN "panic"
             ELSE IF Len(objects[1].Links) # 1 THEN "error"
             ELSE "ok"
        ELSE IF Len(objects[1].Links) = 0 THEN "panic" ELSE "ok"

\* a pinFile that puts the pinned address first
PinFileResultDirFirst(lsResp, hash) ==
    LET link == lsResp.Objects[1].Links[1]
    IN  [Pinned |-> hash \o "/" \o link.Hash, Length |-> link.Size]

\* pinFile's result from the answer of ls to `hash`
PinFileResult(lsResp, hash) ==
    LET link == lsResp.Objects[1].Links[1]
    IN  [Pinned |-> link.Hash \o "/" \o hash, Length |-> link.Size]

\* a pinDelete that returns every pin/rm error
PinDeleteFailsAny(text) == TRUE

\* pinDelete's verdict on the error text of pin/rm: TRUE when it returns an error
PinDeleteFails(text) == ~Contains(text, NotPinnedText)

\* ------------------------------------------------------ doWork directives
\* a doWork that downloads whenever the Work has a download URL
HasDownloadUrl(w) == w.Download # <<>>

\* if work.Download != "" && work.Filename != ""
HasDownload(w) == w.Download # <<>> /\ w.Filename # ""
HasPin(w) == w.Pin # ""
HasDelete(w) == w.Delete # ""

NoResp == [DownloadedFile |-> "", Length |-> 0]
NoPin == [Pinned |-> "", Length |-> 0]

\* a runtime panic: the deferred ObserveJob runs, then the process dies
Panic ==
    /\ pc' = "crashed"
    /\ events' = ObserveJob(observed)
    /\ UNCHANGED ret

ProdReset ==
    /\ prod' = "none"
    /\ mpwCreateFormFileErr' = FALSE
    /\ copyErr' = FALSE
    /\ mpwCloseErr' = FALSE
    /\ closeRes' = FALSE
    /\ boundary' = FALSE
    /\ added' = <<>>

\* downloadOrPinFile returned to doWork
DownloadDone(ok, resp) ==
    /\ workResponse' =
          IF ok
          THEN [workResponse EXCEPT !.Downloaded = Ptr(resp.DownloadedFile),
                                    !.Length = Ptr(resp.Length)]
          ELSE [workResponse EXCEPT !.Error = Ptr(1)]
    /\ pc' = "pin"
    /\ dlAttempt' = 0

\* a resolver that returns the first downloadFile result as it is
DownloadFileReturnsNoRetry(ok, resp) == ProdReset /\ DownloadDone(ok, resp)

\* a resolver that starts its fallback again whenever a downloadFile fails
DownloadFileReturnsRetrying(ok, resp) ==
    /\ ProdReset
    /\ IF ok
       THEN DownloadDone(ok, resp)
       ELSE pc' = "fallback" /\ UNCHANGED <<workResponse, dlAttempt>>

\* downloadFile returned to downloadOrPinFile: the first call's failure
\* starts the fallback, every other result is downloadOrPinFile's own
DownloadFileReturns(ok, resp) ==
    /\ ProdReset
    /\ IF ok \/ dlAttempt = 2
       THEN DownloadDone(ok, resp)
       ELSE pc' = "fallback" /\ UNCHANGED <<workResponse, dlAttempt>>

\* a doWork whose pin directive leaves a length that is already set
PinnedLengthIfUnset(held, size) == IF held = Nil THEN Ptr(size) ELSE held

\* workResponse.Length = &pinned.Length, whatever Length held
PinnedLength(held, size) == Ptr(size)

\* a resolver that returns the fallback pin's reference without its length
FallbackResultNoLength(pin) == [DownloadedFile |-> pin.Pinned, Length |-> 0]

\* return &downloadFileResponse{DownloadedFile: pin.Pinned, Length: pin.Length}
FallbackResult(pin) == [DownloadedFile |-> pin.Pinned, Length |-> pin.Length]

\* pinFile returned, to doWork's pin directive or to the fallback
PinFileReturns(ok, resp) ==
    /\ pfCtx' = ""
    /\ pfHash' = ""
    /\ IF pfCtx = "pin"
       THEN /\ workResponse' =
                  IF ok
                  THEN [workResponse EXCEPT
                            !.Pinned = Ptr(resp.Pinned),
                            !.Length = PinnedLength(workResponse.Length,
                                                    resp.Length)]
                  ELSE [workResponse EXCEPT !.Error = Ptr(1)]
            /\ pc' = "delete"
            /\ UNCHANGED dlAttempt
       ELSE IF ok
            THEN DownloadDone(TRUE, FallbackResult(resp))
            ELSE pc' = "dl.get" /\ dlAttempt' = 2 /\ UNCHANGED workResponse

\* a resolver without the pin branch
FallbackFetchOnly(download) == [kind |-> "fetch", cid |-> ""]

\* what downloadOrPinFile does once its first downloadFile failed
Fallback(download) ==
    LET url == UrlParse(download)
        dec == CidDecode(SubSeq(url.Path, CidStart + 1, CidEnd))
    IN  IF ~url.ok THEN [kind |-> "fetch", cid |-> ""]
        ELSE IF ~HasPrefix(url.Path, IpfsPrefix) THEN [kind |-> "fetch", cid |-> ""]
        ELSE IF Len(url.Path) < CidEnd THEN [kind |-> "panic", cid |-> ""]
        ELSE IF ~dec.ok THEN [kind |-> "fetch", cid |-> ""]
        ELSE [kind |-> "pin", cid |-> dec.String]


\* if work.Download != "" && work.Filename != "" { downloadOrPinFile(...)
DownloadDirective ==
    /\ pc = "download"
    /\ IF HasDownload(work)
       THEN /\ pc' = "dl.get"
            /\ dlAttempt' = 1
            /\ invoked' = Append(invoked, "downloadOrPinFile")
       ELSE pc' = "pin" /\ UNCHANGED <<dlAttempt, invoked>>
    /\ UNCHANGED <<workResponse, observed, work, post, calls, requestForm,
                   reportForm, ret, events, slept, pfCtx, pfHash, prodVars>>

\* ----------------------------------------------------------- downloadFile
\* httpClient.Get fails, or answers with a status code
GetOutcomes(download) ==
    IF UrlParse(download).ok
    THEN [err : BOOLEAN, StatusCode : StatusCodes]
    ELSE [err : {TRUE}, StatusCode : {0}]

\* a downloadFile that goes on whatever the status code of the answer
\* (main.go:303-316)
GetFailsOnErr(r) == r.err

\* if err != nil ... if downloadResp.StatusCode != http.StatusOK
GetFails(r) == r.err \/ r.StatusCode # 200

\* an httpClient.Get with outcome r: status is the status code of the answer,
\* 0 when there was none
GetCall(arg, r) ==
    [op |-> "GET", ctx |-> "download", arg |-> arg,
     ok |-> ~r.err /\ r.StatusCode = 200,
     status |-> IF r.err THEN 0 ELSE r.StatusCode]

\* httpClient.Get(download); on success the producer goroutine is started
DlGet ==
    /\ pc = "dl.get"
    /\ \E r \in GetOutcomes(work.Download) :
        /\ calls' = Append(calls, GetCall(Str(work.Download), r))
        /\ IF GetFails(r)
           THEN DownloadFileReturns(FALSE, NoResp)
           ELSE /\ pc' = "dl.send"
                /\ prod' = "create"
                /\ UNCHANGED <<workResponse, dlAttempt, mpwCreateFormFileErr,
                               copyErr, mpwCloseErr, closeRes, boundary, added>>
    /\ UNCHANGED <<observed, work, post, invoked, requestForm, reportForm, ret,
                   events, slept, pfCtx, pfHash>>

\* go func: w, err := reqMultipart.CreateFormFile("file", filename)
ProducerCreate ==
    /\ prod = "create"
    /\ \E failed \in BOOLEAN :
        IF failed
        THEN mpwCreateFormFileErr' = TRUE /\ prod' = "done"
        ELSE prod' = "copy" /\ UNCHANGED mpwCreateFormFileErr
    /\ UNCHANGED <<main, dlVars, copyErr, mpwCloseErr, closeRes, boundary, added>>

\* a producer that returns when io.Copy failed
ReturnsOnCopyErr(createErr, copied) == copied

\* `if err != nil { return }` after io.Copy tests CreateFormFile's err
ReturnsAfterCopy(createErr, copied) == createErr

\* go func: _, copyErr = io.Copy(w, downloadResp.Body)
ProducerCopy ==
    /\ prod = "copy"
    /\ \E failed \in BOOLEAN :
        /\ copyErr' = failed
        /\ prod' = IF ReturnsAfterCopy(mpwCreateFormFileErr, failed)
                   THEN "done" ELSE "close"
    /\ UNCHANGED <<main, dlVars, mpwCreateFormFileErr, mpwCloseErr, closeRes,
                   boundary, added>>

\* go func: reqMultipart.Close() writes the closing boundary to the pipe
ProducerClose ==
    /\ prod = "close"
    /\ \E failed \in BOOLEAN :
        /\ closeRes' = failed
        /\ boundary' = ~failed
    /\ prod' = "assign"
    /\ UNCHANGED <<main, dlVars, mpwCreateFormFileErr, copyErr, mpwCloseErr, added>>

\* go func: mpwCloseErr = <what Close returned>
ProducerAssign ==
    /\ prod = "assign"
    /\ mpwCloseErr' = closeRes
    /\ prod' = "done"
    /\ UNCHANGED <<main, dlVars, mpwCreateFormFileErr, copyErr, closeRes,
                   boundary, added>>

\* req.Send fails in transport (a timeout included) or the answer carries an
\* error envelope; either can happen wherever the producer stands
DlSendFails ==
    /\ pc = "dl.send"
    /\ calls' = Append(calls, Call("add", "download", work.Filename, FALSE))
    /\ DownloadFileReturns(FALSE, NoResp)
    /\ UNCHANGED <<observed, work, post, invoked, requestForm, reportForm, ret,
                   events, slept, pfCtx, pfHash>>

\* req.Send returns the node's answer: the node reports the file entry once
\* it has read the part to its end, the closing boundary
DlSendAnswered ==
    /\ pc = "dl.send"
    /\ boundary
    /\ \E a \in AddAnswers(work.Filename) : added' = a
    /\ calls' = Append(calls, Call("add", "download", work.Filename, TRUE))
    /\ pc' = "dl.check"
    /\ UNCHANGED <<workResponse, observed, work, post, invoked, requestForm,
                   reportForm, ret, events, slept, dlVars, prod,
                   mpwCreateFormFileErr, copyErr, mpwCloseErr, closeRes, boundary>>

\* a downloadFile that does not look at copyErr
ProducerFailedNoCopy(createErr, copied, closed) == createErr \/ closed

\* the three producer errors as downloadFile reads them after Send
ProducerFailed(createErr, copied, closed) == createErr \/ copied \/ closed

\* the checks of the producer's errors, then the two decoder.Decode calls
DlCheck ==
    /\ pc = "dl.check"
    /\ IF ProducerFailed(mpwCreateFormFileErr, copyErr, mpwCloseErr) \/ Len(added) < 2
       THEN DownloadFileReturns(FALSE, NoResp)
       ELSE pc' = "dl.ls" /\ UNCHANGED <<workResponse, dlAttempt, prodVars>>
    /\ UNCHANGED <<observed, work, post, calls, invoked, requestForm, reportForm, ret,
                   events, slept, pfCtx, pfHash>>

\* a downloadFile that trusts the size of the add answer
DownloadFileResultAddSize(recs, size) ==
    [DownloadedFile |-> recs[1].Hash \o "/" \o recs[2].Hash,
     Length |-> recs[1].Size]

\* downloadFile's result from the add answer and the size ls gave
DownloadFileResult(recs, size) ==
    [DownloadedFile |-> recs[1].Hash \o "/" \o recs[2].Hash, Length |-> size]

\* a downloadFile that lists the wrapping directory
ListedEntryDir(recs) == recs[2].Hash

\* the record of the add answer that downloadFile passes to fileSize
ListedEntry(recs) == recs[1].Hash

\* size, err := fileSize(client, added[0].Hash): ls fails
DlLsFails ==
    /\ pc = "dl.ls"
    /\ calls' = Append(calls, Call("ls", "download", ListedEntry(added), FALSE))
    /\ DownloadFileReturns(FALSE, NoResp)
    /\ UNCHANGED <<observed, work, post, invoked, requestForm, reportForm, ret,
                   events, slept, pfCtx, pfHash>>

\* size, err := fileSize(client, added[0].Hash): ls answers
DlLsAnswered ==
    /\ pc = "dl.ls"
    /\ \E a \in LsAnswers :
        /\ calls' = Append(calls, LsCall("download", ListedEntry(added), a))
        /\ DownloadFileReturns(TRUE, DownloadFileResult(added, fileSize(a)))
    /\ UNCHANGED <<observed, work, post, invoked, requestForm, reportForm, ret,
                   events, slept, pfCtx, pfHash>>

\* ------------------------------------------------------ downloadOrPinFile
\* the first downloadFile failed: url.Parse, the prefix test, cid.Decode
DopFallback ==
    /\ pc = "fallback"
    /\ LET f == Fallback(work.Download)
       IN  CASE f.kind = "panic" ->
                    Panic /\ UNCHANGED <<dlVars>>
             [] f.kind = "pin" ->
                    /\ pc' = "pf.add"
                    /\ pfCtx' = "download"
                    /\ pfHash' = f.cid
                    /\ UNCHANGED <<dlAttempt, ret, events>>
             [] OTHER ->
                    /\ pc' = "dl.get"
                    /\ dlAttempt' = 2
                    /\ UNCHANGED <<pfCtx, pfHash, ret, events>>
    /\ UNCHANGED <<workResponse, observed, work, post, calls, invoked, requestForm,
                   reportForm, slept, prodVars>>

\* ---------------------------------------------------------------- pinFile
\* err := pinAdd(client, hash)
PfAdd ==
    /\ pc = "pf.add"
    /\ \E ok \in BOOLEAN :
        /\ calls' = Append(calls, Call("pin/add", pfCtx, pfHash, ok))
        /\ IF ok
           THEN pc' = "pf.ls" /\ UNCHANGED <<workResponse, dlVars>>
           ELSE PinFileReturns(FALSE, NoPin)
    /\ UNCHANGED <<observed, work, post, invoked, requestForm, reportForm, ret,
                   events, slept, prodVars>>

\* lsResp, err := ls(client, hash): ls fails
PfLsFails ==
    /\ pc = "pf.ls"
    /\ calls' = Append(calls, Call("ls", pfCtx, pfHash, FALSE))
    /\ PinFileReturns(FALSE, NoPin)
    /\ UNCHANGED <<observed, work, post, invoked, requestForm, reportForm, ret,
                   events, slept, prodVars>>

\* lsResp, err := ls(client, hash): ls answers; the shape test, the first link
PfLsAnswered ==
    /\ pc = "pf.ls"
    /\ \E a \in LsAnswers :
        /\ calls' = Append(calls, LsCall(pfCtx, pfHash, a))
        /\ CASE PinFileCheck(a) = "panic" ->
                Panic /\ UNCHANGED <<workResponse, dlVars>>
            [] PinFileCheck(a) = "error" ->
                PinFileReturns(FALSE, NoPin) /\ UNCHANGED <<ret, events>>
            [] OTHER ->
                PinFileReturns(TRUE, PinFileResult(a, pfHash))
                /\ UNCHANGED <<ret, events>>
    /\ UNCHANGED <<observed, work, post, invoked, requestForm, reportForm, slept,
                   prodVars>>


\* ------------------------------------------- doWork: pin, delete, report
\* if work.Pin != "" { pinned, err := pinFile(client, work.Pin)
PinDirective ==
    /\ pc = "pin"
    /\ IF HasPin(work)
       THEN /\ pc' = "pf.add"
            /\ pfCtx' = "pin"
            /\ pfHash' = work.Pin
            /\ invoked' = Append(invoked, "pinFile")
       ELSE pc' = "delete" /\ UNCHANGED <<pfCtx, pfHash, invoked>>
    /\ UNCHANGED <<workResponse, observed, work, post, calls, requestForm,
                   reportForm, ret, events, slept, dlAttempt, prodVars>>

\* if work.Delete != "" { err := pinDelete(client, work.Delete)
DeleteDirective ==
    /\ pc = "delete"
    /\ IF HasDelete(work)
       THEN pc' = "pinDelete" /\ invoked' = Append(invoked, "pinDelete")
       ELSE pc' = "repoStats" /\ UNCHANGED invoked
    /\ UNCHANGED <<workResponse, observed, work, post, calls, requestForm,
                   reportForm, ret, events, slept, dlVars, prodVars>>

\* a doWork that runs the pin directive after the delete directive
DeleteDoneThenPin(failed) ==
    /\ workResponse' =
          IF failed
          THEN [workResponse EXCEPT !.Error = Ptr(1)]
          ELSE [workResponse EXCEPT !.Deleted = Ptr(work.Delete)]
    /\ pc' = IF workResponse.Pinned = Nil /\ workResponse.Error = Nil
             THEN "pin" ELSE "repoStats"

\* doWork after pinDelete returned
DeleteDone(failed) ==
    /\ workResponse' =
          IF failed
          THEN [workResponse EXCEPT !.Error = Ptr(1)]
          ELSE [workResponse EXCEPT !.Deleted = Ptr(work.Delete)]
    /\ pc' = "repoStats"

\* client.Pin().Rm succeeds
PinDeleteOk ==
    /\ pc = "pinDelete"
    /\ calls' = Append(calls, Call("pin/rm", "delete", work.Delete, TRUE))
    /\ DeleteDone(FALSE)
    /\ UNCHANGED <<observed, work, post, invoked, requestForm, reportForm, ret,
                   events, slept, dlVars, prodVars>>

\* client.Pin().Rm fails with error text `text`
PinDeleteError ==
    /\ pc = "pinDelete"
    /\ \E text \in RmErrTexts :
        /\ calls' = Append(calls, Call("pin/rm", "delete", Str(text), FALSE))
        /\ DeleteDone(PinDeleteFails(text))
    /\ UNCHANGED <<observed, work, post, invoked, requestForm, reportForm, ret,
                   events, slept, dlVars, prodVars>>

\* a doWork that reports the node as offline when repo/stat failed
NoStatsOffline(r) == [r EXCEPT !.Online = FALSE]

\* a doWork that counts a failed repo/stat as an error of the cycle
NoStatsError(r) == [r EXCEPT !.Error = Ptr(1)]

\* if err != nil { slog.Error("repo stat failed", "err", err) }
NoStats(r) == r

\* stats, err := repoStats(client); then responseWork starts with its retries
RepoStats ==
    /\ pc = "repoStats"
    /\ \E ok \in BOOLEAN, stats \in RepoStatsAnswers :
        /\ calls' = Append(calls, Call("repo/stat", "stats", "", ok))
        /\ workResponse' =
              IF ok
              THEN [workResponse EXCEPT !.Avail = Ptr(stats.StorageMax),
                                        !.Used = Ptr(stats.RepoSize)]
              ELSE NoStats(workResponse)
    /\ pc' = "responseWork"
    /\ retries' = Retries
    /\ UNCHANGED <<observed, work, failedPosts, lastErr, invoked, requestForm,
                   reportForm, ret, events, slept, dlVars, prodVars>>

\* the earlier revision of doWork (main.go:182-187) returned true after any
\* answered report, whatever the error flag
CompleteAlways(r) == TRUE

\* if workResponse.Error != nil { return false, nil }; return true, nil
Complete(r) == r.Error = Nil

\* one POST of responseWork fails in transport with error text `text`
ResponseWorkError ==
    /\ pc = "responseWork"
    /\ \E text \in PostErrTexts :
        /\ reportForm' = Reader(workResponse)
        /\ failedPosts' = failedPosts + 1
        /\ lastErr' = text
        /\ IF ShouldRetry(retries, text)
           THEN /\ retries' = retries - 1
                /\ UNCHANGED <<pc, ret, events, calls>>
           ELSE /\ calls' = Append(calls, Call("POST /response", "report", "", FALSE))
                /\ Return(FALSE, "post stats failed")
                /\ retries' = 0
    /\ UNCHANGED <<workResponse, observed, work, invoked, requestForm, slept, dlVars,
                   prodVars>>

\* the status codes the coordinator answers a report with
ReportStatusCodes == {200, 500}

\* a responseWork that returns an error when the answer is not 200 OK
RejectsNotOK(code) == code # 200

\* whether responseWork returns an error for an answer with status `code`:
\* resp.Body.Close(); return nil
Rejects(code) == FALSE

\* one POST of responseWork is answered, with any status code; doWork returns
ResponseWorkAnswered ==
    /\ pc = "responseWork"
    /\ \E code \in ReportStatusCodes :
        /\ calls' = Append(calls, Call("POST /response", "report", Itoa(code), TRUE))
        /\ IF Rejects(code)
           THEN Return(FALSE, "post stats failed")
           ELSE Return(Complete(workResponse), "")
    /\ reportForm' = Reader(workResponse)
    /\ retries' = 0
    /\ failedPosts' = 0
    /\ lastErr' = <<>>
    /\ UNCHANGED <<workResponse, observed, work, invoked, requestForm, slept, dlVars,
                   prodVars>>

\* ------------------------------------------------------------------- Spec
Next ==
    \/ MainLoop
    \/ NodeID
    \/ DiagSys
    \/ GetPeers
    \/ RequestWorkError
    \/ RequestWorkMalformed
    \/ RequestWorkAnswer
    \/ DownloadDirective
    \/ DlGet
    \/ ProducerCreate
    \/ ProducerCopy
    \/ ProducerClose
    \/ ProducerAssign
    \/ DlSendFails
    \/ DlSendAnswered
    \/ DlCheck
    \/ DlLsFails
    \/ DlLsAnswered
    \/ DopFallback
    \/ PfAdd
    \/ PfLsFails
    \/ PfLsAnswered
    \/ PinDirective
    \/ DeleteDirective
    \/ PinDeleteOk
    \/ PinDeleteError
    \/ RepoStats
    \/ ResponseWorkError
    \/ ResponseWorkAnswered
    \/ MainSleep

Spec == Init /\ [][Next]_vars


\* ============================================================ properties
Range(seq) == { seq[i] : i \in 1..Len(seq) }
OpsOf(seq) == [ i \in 1..Len(seq) |-> seq[i].op ]
\* the calls made on behalf of ctx, in order
CallsIn(ctx) ==
    LET In(c) == c.ctx = ctx
    IN  SelectSeq(calls, In)
\* how many times doWork called the directive function `name`
Times(name) == Cardinality({ i \in 1..Len(invoked) : invoked[i] = name })
\* doWork is over: it returned, or the process died in it
CycleOver == pc \in {"returned", "crashed"}
\* requestWork returned a Work
JobReceived == \E i \in 1..Len(calls) : calls[i].op = "POST /request" /\ calls[i].ok
\* a POST of the report was sent / was answered
ReportAttempted == reportForm # {}
ReportSent == \E i \in 1..Len(calls) : calls[i].op = "POST /response" /\ calls[i].ok
\* the outcome field of a directive function is set
Succeeded(name) ==
    CASE name = "downloadOrPinFile" -> workResponse.Downloaded # Nil
      [] name = "pinFile" -> workResponse.Pinned # Nil
      [] OTHER -> workResponse.Deleted # Nil
IdleJob == [NoJob EXCEPT !.Message = "No Work"]

\* C1: when the Work holds a download, a pin and a delete and no no-work
\* marker, the cycle calls downloadOrPinFile, pinFile and pinDelete exactly
\* once each, whatever becomes of the other two
C1_AllThreeOnce ==
    ( /\ CycleOver
      /\ JobReceived
      /\ ~IsNoWork(work)
      /\ HasDownload(work) /\ HasPin(work) /\ HasDelete(work) )
    => /\ Times("downloadOrPinFile") = 1
       /\ Times("pinFile") = 1
       /\ Times("pinDelete") = 1

\* C2: a Work that holds only the "No Work" message ends the cycle there:
\* the calls of the cycle are the three status queries and the work request,
\* no directive function is called and nothing is posted to /response
C2_IdleCycle ==
    (JobReceived /\ work = IdleJob)
    => /\ OpsOf(calls) = <<"id", "diag/sys", "swarm/peers", "POST /request">>
       /\ invoked = <<>>
       /\ reportForm = {}
       /\ pc = "returned"
       /\ ret = [complete |-> FALSE, err |-> ""]

C2_Witness == pc = "returned" /\ JobReceived /\ work = IdleJob

\* C3: in a cycle with work, a directive that fails sets the error flag, has
\* its outcome field unset, and the report is still posted, with the outcome
\* fields of the directives that succeeded
C3_FailureReported ==
    (CycleOver /\ \E d \in Range(invoked) : ~Succeeded(d))
    => /\ workResponse.Error = Ptr(1)
       /\ ReportAttempted
       /\ \A v \in workResponse.Downloaded : <<"downloaded", v>> \in reportForm
       /\ \A v \in workResponse.Pinned : <<"pinned", v>> \in reportForm
       /\ \A v \in workResponse.Deleted : <<"deleted", v>> \in reportForm

\* C4: once one of the three status queries has failed the cycle is over
\* with an error: the failed query is the last call, nothing was posted to
\* the coordinator and no directive function was called
C4_StatusFailureAborts ==
    (\E i \in 1..Len(calls) : calls[i].ctx = "status" /\ ~calls[i].ok)
    => /\ pc = "returned"
       /\ ~ret.complete
       /\ ret.err # ""
       /\ \A i \in 1..Len(calls) :
            calls[i].ctx = "status" /\ (calls[i].ok <=> i < Len(calls))
       /\ requestForm = {}
       /\ reportForm = {}
       /\ invoked = <<>>

C4_Witness ==
    /\ pc = "returned"
    /\ Len(calls) = 3
    /\ calls[3].op = "swarm/peers"
    /\ ~calls[3].ok


\* ------------------------------------------------- the fallback resolver
\* the calls downloadOrPinFile made
DC == CallsIn("download")
Gets == { i \in 1..Len(DC) : DC[i].op = "GET" }
DownloadPins == { i \in 1..Len(DC) : DC[i].op = "pin/add" }
\* downloadOrPinFile was called and has returned to doWork
DownloadReturned == Times("downloadOrPinFile") = 1 /\ dlAttempt = 0
\* the first downloadFile went through: GET, add and ls all answered
FirstFetchOk ==
    /\ Len(DC) >= 3
    /\ DC[2].op = "add"
    /\ DC[3].op = "ls" /\ DC[3].ok
\* the first downloadFile has returned an error
FirstFetchFailed ==
    /\ Times("downloadOrPinFile") = 1
    /\ ~(dlAttempt = 1 /\ pc \in {"dl.get", "dl.send", "dl.check", "dl.ls"})
    /\ ~FirstFetchOk
\* the download URLs that parse, by what their path begins with
PlainUrls ==
    { u \in Urls : UrlParse(u).ok /\ ~HasPrefix(UrlParse(u).Path, IpfsPrefix) }
PrefixUrls ==
    { u \in Urls : UrlParse(u).ok /\ HasPrefix(UrlParse(u).Path, IpfsPrefix) }
\* and those where the CidLen characters after the prefix decode as a
\* content address
EmbeddingUrls ==
    { u \in PrefixUrls :
        /\ Len(UrlParse(u).Path) >= CidEnd
        /\ CidDecode(SubSeq(UrlParse(u).Path, CidStart + 1, CidEnd)).ok }
EmbeddedIn ==
    [ u \in EmbeddingUrls |->
        Str(SubSeq(UrlParse(u).Path, CidStart + 1, CidEnd)) ]
\* the download URL parses and its path begins with "/ipfs/"
MatchesPrefix(w) == w.Download \in PrefixUrls
\* and the CidLen characters after the prefix decode as a content address
HasEmbedded(w) == w.Download \in EmbeddingUrls
Embedded(w) == EmbeddedIn[w.Download]
\* after a failed first fetch the resolver does one more plain fetch and
\* nothing else, and the result of that fetch is the result of the directive
RetriesPlainFetch ==
    /\ DownloadPins = {}
    /\ Cardinality(Gets) <= 2
    /\ ~(pc = "crashed" /\ dlAttempt # 0)
    /\ FirstFetchFailed =>
          \/ pc = "fallback"
          \/ pc = "dl.get" /\ dlAttempt = 2
          \/ Cardinality(Gets) = 2
    /\ (DownloadReturned /\ FirstFetchFailed) =>
          /\ Succeeded("downloadOrPinFile")
                <=> (DC[Len(DC)].op = "ls" /\ DC[Len(DC)].ok)
          /\ Succeeded("downloadOrPinFile") \/ workResponse.Error = Ptr(1)

\* C5 (as claimed): when the path of the download URL begins with "/ipfs/",
\* a second GET is always preceded by a pin/add of the resolver
C5_PrefixPinsFirst ==
    (HasDownload(work) /\ MatchesPrefix(work))
    => \A i \in Gets :
          (\E j \in Gets : j < i) => \E k \in DownloadPins : k < i

\* C5 (amended): when the path begins with "/ipfs/" and the CidLen characters
\* after it decode as a content address, the resolver, once its first fetch
\* has failed, calls pin/add on that address, and before any second GET
C5_EmbeddedPinsFirst ==
    (HasDownload(work) /\ HasEmbedded(work))
    => /\ \A i \in Gets :
             (\E j \in Gets : j < i)
             => \E k \in DownloadPins : k < i /\ DC[k].arg = Embedded(work)
       /\ (FirstFetchFailed /\ pc \notin {"fallback", "pf.add"})
             => DownloadPins # {}

C5_Witness ==
    /\ HasDownload(work) /\ HasEmbedded(work)
    /\ Cardinality(Gets) = 2
    /\ DownloadReturned

\* C6: when the path of the download URL does not begin with "/ipfs/" and the
\* first fetch failed, the resolver calls no pin/add: its next and last
\* operation is a second plain fetch, whose result or error it returns
C6_NoPrefixSecondFetch ==
    (HasDownload(work) /\ work.Download \in PlainUrls) => RetriesPlainFetch

C6_Witness ==
    /\ HasDownload(work)
    /\ work.Download \in PlainUrls
    /\ DownloadReturned
    /\ Cardinality(Gets) = 2
    /\ Succeeded("downloadOrPinFile")

\* C7: when the path begins with "/ipfs/" but holds no content address after
\* it (one that does not decode, or fewer than CidLen characters), the
\* resolver retries the plain fetch and returns its outcome
C7_NoAddressRetriesFetch ==
    (HasDownload(work) /\ MatchesPrefix(work) /\ ~HasEmbedded(work))
    => RetriesPlainFetch

\* ------------------------------------------------- the coordinator calls
\* C8: requestWork and responseWork post again only after a transport error
\* whose text contains "EOF", at most Retries times (Retries + 1 POSTs);
\* the call fails on the first error of another kind, and on the
\* (Retries + 1)-th EOF error
C8_RetryPolicy ==
    /\ failedPosts <= Retries + 1
    /\ pc \in {"requestWork", "responseWork"} =>
          /\ retries = Retries - failedPosts
          /\ failedPosts > 0 => Contains(lastErr, EOF)
    /\ (pc = "returned" /\ failedPosts > 0) =>
          /\ ~ret.complete
          /\ ret.err \in {"requesting work failed", "post stats failed"}
          /\ ~calls[Len(calls)].ok
          /\ calls[Len(calls)].op \in {"POST /request", "POST /response"}
          /\ Contains(lastErr, EOF) => failedPosts = Retries + 1

C8_Witness ==
    /\ pc = "returned"
    /\ failedPosts = Retries + 1
    /\ ret.err = "post stats failed"

\* C9: when pin/rm fails with "not pinned or pinned indirectly" the delete
\* counts as done: Deleted is the requested reference and the error flag is
\* set only if the download or the pin failed; after any other pin/rm error
\* the error flag is set and Deleted is unset
C9_NotPinnedIsSuccess ==
    \A i \in 1..Len(calls) :
        (calls[i].op = "pin/rm" /\ ~calls[i].ok) =>
            IF calls[i].arg = Str(RmNotPinnedText)
            THEN /\ workResponse.Deleted = Ptr(work.Delete)
                 /\ workResponse.Error # Nil =>
                       \E d \in Range(invoked) \ {"pinDelete"} : ~Succeeded(d)
            ELSE /\ workResponse.Deleted = Nil
                 /\ workResponse.Error = Ptr(1)

C9_Witness ==
    /\ pc = "returned"
    /\ \E i \in 1..Len(calls) :
          calls[i].op = "pin/rm" /\ calls[i].arg = Str(RmNotPinnedText)
    /\ workResponse.Deleted = Ptr("QmDel")
    /\ workResponse.Error = Nil
    /\ ret.complete

\* C10: doWork returns complete exactly when the report was posted and
\* answered and no directive set the error flag
C10_CompleteIff ==
    pc = "returned" =>
        (ret.complete <=> (ReportSent /\ workResponse.Error = Nil))

C10_Witness ==
    /\ pc = "returned"
    /\ ReportSent
    /\ workResponse.Error = Ptr(1)
    /\ ~ret.complete


\* ------------------------------------------------------------ scheduling
\* main is between two cycles: the sleep that followed doWork is over
Slept == pc = "loop" /\ slept # "none"

\* C11 (as claimed): after an idle cycle main sleeps the short fixed
\* interval, after any other cycle until the poll interval has elapsed
C11_IdleSleepsShort ==
    Slept => slept = IF IsNoWork(work) THEN "short" ELSE "untilNextUpdate"

\* C11 (amended): after every cycle, idle or not, main sleeps until the poll
\* interval has elapsed since the start of the cycle
C11_SleepsUntilNextUpdate == Slept => slept = "untilNextUpdate"

C11_Witness == Slept /\ IsNoWork(work) /\ slept = "untilNextUpdate"

\* C12: after a cycle that downloaded an episode and completed main sleeps
\* the small fixed period, after any other cycle the update interval
C12_JobSleepsShort ==
    Slept => slept = IF ret.complete /\ HasDownload(work)
                     THEN "short" ELSE "untilNextUpdate"

\* C13: no operation of a cycle stops the process
C13_NeverStops == pc # "crashed"


\* ------------------------------------------------- references and sizes
\* downloadOrPinFile returned what a downloadFile stored: its last calls
\* are the add and the ls of the file entry
DirectStored ==
    /\ DownloadReturned
    /\ Len(DC) >= 3
    /\ DC[Len(DC)].op = "ls" /\ DC[Len(DC)].ok
    /\ DC[Len(DC) - 1].op = "add"
\* the length ls reported for the file entry: the sum of the link sizes
ListedLength == fileSize(DC[Len(DC)].answer)

\* C14 (as claimed): after a direct fetch whose add answered the records
\* QmFile, QmDir, the report carries downloaded = "QmFile/QmDir" and the
\* length ls reported for QmFile
C14_ReportCarriesLength ==
    (DirectStored /\ ReportAttempted)
    => /\ <<"downloaded", "QmFile/QmDir">> \in reportForm
       /\ <<"length", Itoa(ListedLength)>> \in reportForm

\* C14 (amended): after a direct fetch whose add answered the records QmFile,
\* QmDir, the outcome and a posted report carry downloaded = "QmFile/QmDir",
\* and as length the sum of the link sizes ls reported for QmFile unless a pin
\* directive of the cycle succeeded
C14_DownloadReference ==
    DirectStored
    => /\ DC[Len(DC)].arg = "QmFile"
       /\ workResponse.Downloaded = Ptr("QmFile/QmDir")
       /\ workResponse.Pinned = Nil => workResponse.Length = Ptr(ListedLength)
       /\ ReportAttempted =>
             /\ <<"downloaded", "QmFile/QmDir">> \in reportForm
             /\ workResponse.Pinned = Nil =>
                   \A kv \in reportForm :
                       kv[1] = "length" => kv[2] = Itoa(ListedLength)
             /\ workResponse.Pinned = Nil =>
                   <<"length", Itoa(ListedLength)>> \in reportForm

C14_Witness ==
    /\ DirectStored
    /\ ReportSent
    /\ Len(DC[Len(DC)].answer.Objects) = 1
    /\ Len(DC[Len(DC)].answer.Objects[1].Links) = 2
    /\ <<"length", "2000">> \in reportForm


\* the calls of the pin directive
PC == CallsIn("pin")
\* the pin directive stored a reference: pinFile's ls was its last call
PinStored == workResponse.Pinned # Nil /\ PC # <<>>
\* downloadOrPinFile returned what its fallback pinFile produced
FallbackStored ==
    /\ DownloadReturned
    /\ Succeeded("downloadOrPinFile")
    /\ DC[Len(DC) - 1].op = "pin/add"

\* C15 (as claimed): a reference of an outcome is
\* <address of the wrapping directory>/<entry>: for a download the hash of
\* the directory record of add, then the file's name or hash; for a pin the
\* pinned address, then the link's hash
C15_DirectoryFirst ==
    /\ DirectStored =>
          \E e \in {work.Filename, "QmFile"} :
              workResponse.Downloaded = Ptr("QmDir" \o "/" \o e)
    /\ PinStored =>
          \E e \in {"QmL1", "QmL2", "QmL3"} :
              workResponse.Pinned = Ptr(work.Pin \o "/" \o e)

\* C15 (amended): a reference of an outcome is
\* <hash of the entry>/<address of the wrapping directory>: for a download
\* the hash of the file record of add, then the hash of the directory record;
\* for a pin, and for the fallback pin of a download, the hash of the first
\* link ls listed, then the pinned address
C15_EntryFirst ==
    /\ DirectStored => workResponse.Downloaded = Ptr("QmFile" \o "/" \o "QmDir")
    /\ PinStored =>
          /\ PC[Len(PC)].op = "ls" /\ PC[Len(PC)].ok
          /\ PC[Len(PC)].arg = work.Pin
          /\ workResponse.Pinned =
                Ptr(PC[Len(PC)].answer.Objects[1].Links[1].Hash
                      \o "/" \o work.Pin)
    /\ FallbackStored =>
          /\ DC[Len(DC)].arg = Embedded(work)
          /\ workResponse.Downloaded =
                Ptr(DC[Len(DC)].answer.Objects[1].Links[1].Hash
                      \o "/" \o Embedded(work))

C15_Witness ==
    /\ pc = "returned"
    /\ ReportSent
    /\ DirectStored
    /\ PinStored
    /\ <<"downloaded", "QmFile/QmDir">> \in reportForm
    /\ <<"pinned", "QmL1/QmPin">> \in reportForm


\* exactly one object holding exactly one link
OneObjectOneLink(lsResp) ==
    /\ Len(lsResp.Objects) = 1
    /\ Len(lsResp.Objects[1].Links) = 1
\* the ls calls that were answered
Listed == { i \in 1..Len(calls) : calls[i].op = "ls" /\ calls[i].ok }

\* C16: an ls answer that is not exactly one object with exactly one link
\* makes the size resolution fail; in the pin directive the error flag is
\* then set and Pinned is unset, and a download is not stored with it
C16_MalformedLinksFails ==
    \A i \in Listed :
        ~OneObjectOneLink(calls[i].answer) =>
            /\ pc # "crashed"
            /\ calls[i].ctx = "pin" =>
                  workResponse.Pinned = Nil /\ workResponse.Error = Ptr(1)
            /\ (calls[i].ctx = "download" /\ DownloadReturned
                  /\ i = Len(calls)) =>
                  workResponse.Downloaded = Nil

\* ---------------------------------------------------------- repo stats
\* the repo/stat calls of the cycle
StatCalls == { i \in 1..Len(calls) : calls[i].op = "repo/stat" }
\* the keys of a posted form
Keys(form) == { kv[1] : kv \in form }

\* C17: after a failed repo/stat the error flag is set only if a directive
\* failed, the report is still posted, and it has no used and no avail
\* field; after an answered repo/stat the report has both
C17_StatsBestEffort ==
    \A i \in StatCalls :
        /\ pc \in {"responseWork", "returned"}
        /\ pc = "returned" => ReportAttempted
        /\ workResponse.Error # Nil => \E d \in Range(invoked) : ~Succeeded(d)
        /\ IF calls[i].ok
           THEN /\ workResponse.Used # Nil /\ workResponse.Avail # Nil
                /\ ReportAttempted =>
                      {"used", "avail"} \subseteq Keys(reportForm)
           ELSE /\ workResponse.Used = Nil /\ workResponse.Avail = Nil
                /\ ReportAttempted =>
                      {"used", "avail"} \cap Keys(reportForm) = {}

C17_Witness ==
    /\ pc = "returned"
    /\ \E i \in StatCalls : ~calls[i].ok
    /\ ReportSent
    /\ invoked # <<>>
    /\ ret.complete
    /\ {"used", "avail"} \cap Keys(reportForm) = {}


\* ------------------------------------------------- the producer goroutine
\* the producer of the running downloadFile hit one of its three failure
\* points: CreateFormFile, io.Copy, or Close (whether or not the goroutine
\* has stored what Close returned yet)
ProducerHitError == mpwCreateFormFileErr \/ copyErr \/ closeRes

OutcomeKeys ==
    {"downloaded", "pinned", "deleted", "length", "error", "used", "avail"}

\* C19: in every cycle doWork starts from a WorkResponse without outcome
\* fields and posts a request without outcome fields, and every outcome
\* field of the report comes from an operation of the same cycle
C19_FreshEachCycle ==
    /\ pc = "nodeID" => Keys(Reader(workResponse)) \cap OutcomeKeys = {}
    /\ Keys(requestForm) \cap OutcomeKeys = {}
    /\ \A kv \in reportForm :
          /\ kv[1] = "downloaded" =>
                /\ DownloadReturned
                /\ DC[Len(DC)].op = "ls" /\ DC[Len(DC)].ok
          /\ kv[1] = "pinned" =>
                /\ PC # <<>>
                /\ PC[Len(PC)].op = "ls" /\ PC[Len(PC)].ok
          /\ kv[1] = "deleted" =>
                /\ kv[2] = work.Delete
                /\ \E i \in 1..Len(calls) : calls[i].op = "pin/rm"
          /\ kv[1] = "error" => \E d \in Range(invoked) : ~Succeeded(d)
          /\ kv[1] \in {"used", "avail"} => \E i \in StatCalls : calls[i].ok
          /\ kv[1] = "length" =>
                {"downloaded", "pinned"} \cap Keys(reportForm) # {}

\* a cycle begins after one that left outcome fields in its WorkResponse
C19_Witness ==
    /\ pc = "loop"
    /\ slept # "none"
    /\ workResponse.Deleted # Nil
    /\ workResponse.Error # Nil


\* --------------------------------------------------- order of operations
\* the place of a call in doWork
Rank(ctx) ==
    CASE ctx = "status" -> 0
      [] ctx = "request" -> 1
      [] ctx = "download" -> 2
      [] ctx = "pin" -> 3
      [] ctx = "delete" -> 4
      [] ctx = "stats" -> 5
      [] ctx = "report" -> 6
\* how many calls of the cycle were made on behalf of ctx
Count(ctx) == Len(CallsIn(ctx))

\* C20: the calls of a cycle are made in the order work request, download,
\* pin, delete, repo/stat, report, each directive only if the Work holds it
\* and each directive function once at most; a cycle with work that returns
\* has queried repo/stat once and then called responseWork once, after
\* which no call is made
C20_FixedOrder ==
    /\ \A i \in 1..Len(calls) - 1 :
          Rank(calls[i].ctx) <= Rank(calls[i + 1].ctx)
    /\ Count("request") <= 1 /\ Count("stats") <= 1 /\ Count("report") <= 1
    /\ Count("download") > 0 => HasDownload(work)
    /\ Count("pin") > 0 => HasPin(work)
    /\ Count("delete") > 0 => HasDelete(work)
    /\ Count("delete") <= 1
    /\ Len(invoked) <= 3
    /\ \A i, j \in 1..Len(invoked) :
          i < j => \/ invoked[i] = "downloadOrPinFile" /\ invoked[j] # invoked[i]
                   \/ invoked[i] = "pinFile" /\ invoked[j] = "pinDelete"
    /\ (pc = "returned" /\ JobReceived /\ ~IsNoWork(work)) =>
          /\ Count("stats") = 1
          /\ Count("report") = 1
          /\ calls[Len(calls)].ctx = "report"
          /\ calls[Len(calls) - 1].ctx = "stats"
          /\ Times("downloadOrPinFile") = (IF HasDownload(work) THEN 1 ELSE 0)
          /\ Times("pinFile") = (IF HasPin(work) THEN 1 ELSE 0)
          /\ Times("pinDelete") = (IF HasDelete(work) THEN 1 ELSE 0)

C20_Witness ==
    /\ pc = "returned"
    /\ ReportSent
    /\ invoked = <<"downloadOrPinFile", "pinFile", "pinDelete">>
    /\ Count("download") > 0 /\ Count("pin") > 0 /\ Count("delete") > 0
    /\ Count("stats") = 1


\* --------------------------------------------- the fallback pin fails
\* the pin/add of the resolver failed, or the ls after it failed or did not
\* list exactly one object with exactly one link
FallbackPinFailed ==
    \E k \in DownloadPins :
        \/ ~DC[k].ok
        \/ /\ k < Len(DC)
           /\ DC[k + 1].op = "ls"
           /\ ~DC[k + 1].ok \/ ~OneObjectOneLink(DC[k + 1].answer)
\* the last downloadFile of the resolver stored the file
LastFetchStored ==
    /\ Len(DC) >= 3
    /\ DC[Len(DC)].op = "ls" /\ DC[Len(DC)].ok
    /\ DC[Len(DC) - 1].op = "add"

\* C21: when the path holds a content address and the pin of the resolver
\* failed, the resolver makes one more plain fetch, two GETs in all, and
\* what that fetch returns is what the download directive gets
C21_PinFailedOneMoreFetch ==
    (HasDownload(work) /\ HasEmbedded(work) /\ FallbackPinFailed)
    => /\ pc # "crashed"
       /\ Cardinality(DownloadPins) = 1
       /\ \/ pc = "dl.get" /\ dlAttempt = 2 /\ Cardinality(Gets) = 1
          \/ Cardinality(Gets) = 2
       /\ DownloadReturned =>
             /\ Succeeded("downloadOrPinFile") <=> LastFetchStored
             /\ Succeeded("downloadOrPinFile") \/ workResponse.Error = Ptr(1)


\* --------------------------------------------------------- the job events
\* the job types whose outcome field the cycle has set
OutcomeTypes ==
    { t \in {"download", "pin", "delete"} :
        CASE t = "download" -> workResponse.Downloaded # Nil
          [] t = "pin" -> workResponse.Pinned # Nil
          [] OTHER -> workResponse.Deleted # Nil }

\* C22: when a cycle that received work returns, the job events emitted are
\* exactly one per job type whose outcome field is set, each with the status
\* of the final error flag ("error" when set, "success" otherwise)
C22_EventPerOutcome ==
    (pc = "returned" /\ JobReceived /\ ~IsNoWork(work))
    => events =
        { [job_type |-> t,
           status |-> IF workResponse.Error # Nil THEN "error" ELSE "success"] :
            t \in OutcomeTypes }


\* ------------------------------------------------ the undecodable answer
\* the work request was answered with a body that does not decode as a Work
Undecodable(c) == c.op = "POST /request" /\ c.arg = "malformed"

\* C23: once the work request has been answered with a body that does not
\* decode, that POST is the last call of the cycle (no further POST, no
\* repo/stat, no report), no directive function was called, and doWork has
\* returned "not complete" with the requesting-work error
C23_UndecodableAnswerFails ==
    \A i \in 1..Len(calls) :
        Undecodable(calls[i])
        => /\ i = Len(calls)
           /\ pc = "returned"
           /\ ret = [complete |-> FALSE, err |-> "requesting work failed"]
           /\ work = NoJob
           /\ invoked = <<>>
           /\ reportForm = {}
           /\ Cardinality({ j \in 1..Len(calls) : calls[j].ctx = "request" }) = 1

C23_Witness ==
    /\ pc = "returned"
    /\ Len(calls) = 4
    /\ Undecodable(calls[4])
    /\ requestForm # {}


\* ------------------------------------------------------- the failed GET
\* C24: a GET that has a transport error or is answered with a status other
\* than 200 ends its downloadFile there: the producer is not started and no
\* add is sent (what follows in the resolver's calls is its pin/add or the GET
\* of its second downloadFile, never an add or an ls), each downloadFile does
\* one GET only, and when the failed GET was the resolver's last call the
\* directive has failed
C24_FailedGetEndsFetch ==
    LET dc == DC
        gets == { i \in 1..Len(dc) : dc[i].op = "GET" }
    IN  \A i \in gets :
            dc[i].status # 200
            => /\ ~dc[i].ok
               /\ i < Len(dc) => dc[i + 1].op \in {"pin/add", "GET"}
               /\ i = Len(dc) =>
                     /\ prod = "none"
                     /\ pc \notin {"dl.send", "dl.check", "dl.ls"}
                     /\ pc = "dl.get" => dlAttempt = Cardinality(gets) + 1
                     /\ DownloadReturned =>
                           /\ ~Succeeded("downloadOrPinFile")
                           /\ workResponse.Error = Ptr(1)
               /\ Cardinality(gets) <= 2

\* both ways of failing happen: a transport error, and an answer with
\* status 404
C24_Witness ==
    /\ DownloadReturned
    /\ Cardinality(Gets) = 2
    /\ DC[1].status = 0
    /\ DC[2].status = 404
    /\ Len(DC) = 2


\* --------------------------------------------------------- the round trip
\* the hashes of the add answers
AddedHashes == {"QmFile", "QmDir"}
\* the file-entry segment of a reference "<file entry>/<directory entry>"
FileEntry(ref) ==
    CHOOSE h \in AddedHashes : \E d \in AddedHashes : ref = h \o "/" \o d
\* the node has answered an ls of hash h in this cycle
HasListed(h) == \E i \in Listed : calls[i].arg = h
\* what the unchanged node answers to an ls of h: what it answered the last
\* time it was asked
NodeLinks(h) ==
    LET asked == { i \in Listed : calls[i].arg = h }
        last == CHOOSE i \in asked : \A j \in asked : j <= i
    IN  calls[last].answer

LacksDownloadField(w) == w.Download = <<>> \/ w.Filename = ""
\* the Work has one of the two and not the other
HalfDownload(w) == (w.Download = <<>>) # (w.Filename = "")

\* C26: in a cycle whose Work lacks the download URL or the filename and has
\* no no-work marker, downloadOrPinFile is not called and makes no call,
\* Downloaded stays unset, the error flag is set only when a pin or delete
\* that was called has failed, and the cycle goes on: when doWork returns it
\* has called pinFile and pinDelete as the Work asks, queried repo/stat and
\* posted the report; it ends early only by a panic inside pinFile
C26_DownloadNeedsBoth ==
    (JobReceived /\ ~IsNoWork(work) /\ LacksDownloadField(work))
    => /\ Times("downloadOrPinFile") = 0
       /\ DC = <<>>
       /\ workResponse.Downloaded = Nil
       /\ workResponse.Error # Nil =>
             \E d \in Range(invoked) : ~Succeeded(d)
       /\ pc \notin {"download", "pin"} =>
             (Times("pinFile") = 1 <=> HasPin(work))
       /\ pc = "returned" =>
             /\ Times("pinDelete") = 1 <=> HasDelete(work)
             /\ StatCalls # {}
             /\ ReportAttempted
       /\ pc = "crashed" => pfCtx = "pin"

C26_Witness ==
    /\ pc = "returned"
    /\ JobReceived /\ ~IsNoWork(work)
    /\ HalfDownload(work)
    /\ work.Download # <<>>
    /\ invoked = <<"pinFile", "pinDelete">>
    /\ ReportSent
    /\ ret.complete


\* ------------------------------------------------------ one cycle at a time
\* nothing of a cycle is in progress
Quiescent ==
    /\ calls = <<>> /\ invoked = <<>>
    /\ requestForm = {} /\ reportForm = {}
    /\ dlAttempt = 0 /\ prod = "none" /\ pfCtx = ""

\* C27: the first status query of a cycle is reached only from the top of
\* main's loop, with nothing of an earlier cycle in progress, and the top of
\* the loop is reached only from a doWork that has returned, by the sleep
C27_CyclesInSequence ==
    [][ /\ (pc' = "nodeID" /\ pc # "nodeID") => (pc = "loop" /\ Quiescent)
        /\ (pc' = "loop" /\ pc # "loop") =>
              (pc = "returned" /\ slept' = "untilNextUpdate" /\ Quiescent')
      ]_vars

\* a cycle has returned after work, main has slept and is about to call
\* doWork again
C27_Witness ==
    /\ pc = "loop"
    /\ slept = "untilNextUpdate"
    /\ work # NoJob
    /\ Quiescent


\* ------------------------------------------------ the resolver's attempts
\* downloadOrPinFile is inside its second downloadFile
InSecondFetch ==
    dlAttempt = 2 /\ pc \in {"dl.get", "dl.send", "dl.check", "dl.ls"}

\* C28: one call of downloadOrPinFile makes at most two GETs and at most one
\* pin/add; when its first downloadFile stored the episode it has returned
\* with that result after one GET and no pin/add; after a second GET it calls
\* only the add and the ls of that downloadFile, and returns when that
\* downloadFile does
C28_TwoFetchesOnePin ==
    LET dc == DC
        gets == { i \in 1..Len(dc) : dc[i].op = "GET" }
        pins == { i \in 1..Len(dc) : dc[i].op = "pin/add" }
    IN  /\ Cardinality(gets) <= 2
        /\ Cardinality(pins) <= 1
        /\ FirstFetchOk =>
              /\ gets = {1}
              /\ pins = {}
              /\ Len(dc) = 3
              /\ DownloadReturned
              /\ Succeeded("downloadOrPinFile")
        /\ \A i \in gets, j \in gets :
              i < j => /\ \A k \in (j + 1)..Len(dc) : dc[k].op \in {"add", "ls"}
                       /\ \A k \in pins : i < k /\ k < j
                       /\ ~InSecondFetch => DownloadReturned

C28_Witness ==
    /\ DownloadReturned
    /\ Cardinality(Gets) = 2
    /\ Cardinality(DownloadPins) = 1
    /\ Succeeded("downloadOrPinFile")
    /\ Len(DC) = 6


\* ------------------------------------------- the marker and the directives
\* the Work holds a download, a pin or a delete
HoldsDirective(w) ==
    \/ w.Download # <<>> /\ w.Filename # ""
    \/ w.Pin # ""
    \/ w.Delete # ""

\* C29: a Work whose message is "No Work" ends the cycle as idle even when
\* it holds directives: doWork has returned "not complete" without an error
\* right after the work request, no directive function was called, no outcome
\* field and no error flag is set, and nothing was posted to /response
C29_NoWorkBeforeDirectives ==
    (JobReceived /\ work.Message = "No Work" /\ HoldsDirective(work))
    => /\ pc = "returned"
       /\ ret = [complete |-> FALSE, err |-> ""]
       /\ Len(calls) = 4
       /\ calls[4].op = "POST /request"
       /\ invoked = <<>>
       /\ reportForm = {}
       /\ workResponse.Downloaded = Nil
       /\ workResponse.Pinned = Nil
       /\ workResponse.Deleted = Nil
       /\ workResponse.Error = Nil

C29_Witness ==
    /\ pc = "returned"
    /\ JobReceived
    /\ work.Message = "No Work"
    /\ work.Download # <<>> /\ work.Filename # ""
    /\ work.Delete # ""


\* ------------------------------------------------------- the empty Work
\* the keys of the node status in a form
StatusKeys == {"email", "version", "ipfs_id", "ipfs_ver", "online", "peers"}
\* the keys of the directives' outcomes in a form
DirectiveKeys == {"downloaded", "pinned", "deleted", "length", "error"}

\* C30: a Work with no "No Work" message and no directive does not end the
\* cycle as idle: no directive function is called, no outcome field and no
\* error flag is set, and doWork returns only after it has queried repo/stat
\* and posted a report that has the keys of the node status, used and avail
\* exactly when repo/stat answered, and none of downloaded, pinned, deleted,
\* length and error; it returns "complete" exactly when the report was
\* answered
C30_EmptyWorkReports ==
    (JobReceived /\ work.Message # "No Work" /\ ~HoldsDirective(work))
    => /\ pc \in {"download", "pin", "delete", "repoStats", "responseWork",
                  "returned"}
       /\ invoked = <<>>
       /\ workResponse.Downloaded = Nil /\ workResponse.Pinned = Nil
       /\ workResponse.Deleted = Nil /\ workResponse.Length = Nil
       /\ workResponse.Error = Nil
       /\ pc = "returned" =>
             /\ Cardinality(StatCalls) = 1
             /\ ReportAttempted
             /\ StatusKeys \subseteq Keys(reportForm)
             /\ DirectiveKeys \cap Keys(reportForm) = {}
             /\ \A i \in StatCalls :
                   IF calls[i].ok
                   THEN {"used", "avail"} \subseteq Keys(reportForm)
                   ELSE {"used", "avail"} \cap Keys(reportForm) = {}
             /\ ret.complete <=> ReportSent
             /\ ReportSent => ret.err = ""

C30_Witness ==
    /\ pc = "returned"
    /\ JobReceived
    /\ work = NoJob
    /\ ReportSent
    /\ ret.complete
    /\ Keys(reportForm) = StatusKeys \cup {"used", "avail"}


\* ------------------------------------------------------ the shared length
\* the pin directive was called and is over: pinFile returned or panicked
PinOver == Times("pinFile") = 1 /\ pc \notin {"pf.add", "pf.ls"}
\* the length downloadOrPinFile returned: the sum of the link sizes for a
\* downloadFile, the size of the first link for its fallback pin
DownloadLength ==
    IF DC[Len(DC) - 1].op = "add"
    THEN ListedLength
    ELSE DC[Len(DC)].answer.Objects[1].Links[1].Size
\* the size of the first link ls listed for the pin directive
PinLinkSize == PC[Len(PC)].answer.Objects[1].Links[1].Size
\* the one length the outcome holds after a download and a pin
SharedLength ==
    IF workResponse.Pinned # Nil THEN PinLinkSize ELSE DownloadLength

\* C31: in a cycle whose download succeeded and whose pin directive is over,
\* the outcome holds one length: the size of the pin's first link when the
\* pin succeeded, the download's length when it did not; a posted report
\* has that length and no other
C31_OneLength ==
    (DownloadReturned /\ Succeeded("downloadOrPinFile") /\ PinOver)
    => /\ workResponse.Length = Ptr(SharedLength)
       /\ ReportAttempted =>
             /\ <<"length", Itoa(SharedLength)>> \in reportForm
             /\ \A kv \in reportForm :
                   kv[1] = "length" => kv[2] = Itoa(SharedLength)

\* the download stored 2000 bytes, the pin listed a link of 1000
C31_Witness ==
    /\ DownloadReturned /\ Succeeded("downloadOrPinFile") /\ PinOver
    /\ workResponse.Pinned # Nil
    /\ DownloadLength = 2000
    /\ PinLinkSize = 1000
    /\ ReportSent
    /\ <<"length", "1000">> \in reportForm


\* ------------------------------------------------- the fallback pin stored
\* the first link of the answer to the resolver's last ls
FallbackLink == DC[Len(DC)].answer.Objects[1].Links[1]

\* C32: when downloadOrPinFile returned what its fallback pinFile produced,
\* its one downloadFile had failed, Downloaded is
\* <hash of the first link ls listed>/<embedded address>, Pinned is unset
\* unless the pin directive sets it later, the length is the size of that
\* link while no pin directive has replaced it, the error flag is set only
\* when a pin or delete directive failed, and a posted report has that
\* downloaded field
C32_FallbackPinIsDownload ==
    FallbackStored
    => /\ FirstFetchFailed
       /\ Cardinality(Gets) = 1
       /\ workResponse.Downloaded =
             Ptr(FallbackLink.Hash \o "/" \o Embedded(work))
       /\ Times("pinFile") = 0 => workResponse.Pinned = Nil
       /\ workResponse.Pinned = Nil =>
             workResponse.Length = Ptr(FallbackLink.Size)
       /\ workResponse.Error # Nil =>
             \E d \in Range(invoked) :
                 d # "downloadOrPinFile" /\ ~Succeeded(d)
       /\ ReportAttempted =>
             /\ <<"downloaded", FallbackLink.Hash \o "/" \o Embedded(work)>>
                    \in reportForm
             /\ workResponse.Pinned = Nil =>
                   /\ <<"length", Itoa(FallbackLink.Size)>> \in reportForm
                   /\ "pinned" \notin Keys(reportForm)
             /\ "error" \in Keys(reportForm) => workResponse.Error # Nil

C32_Witness ==
    /\ FallbackStored
    /\ OneObjectOneLink(DC[Len(DC)].answer)
    /\ ReportSent
    /\ ret.complete
    /\ Keys(reportForm) \cap {"pinned", "error", "deleted"} = {}
    /\ {"downloaded", "length"} \subseteq Keys(reportForm)


\* ------------------------------------------------- the status of the node
\* the node status a form carries
StatusOf(form) == { kv \in form : kv[1] \in StatusKeys }
\* the node status getKuboStats wrote into the cycle's WorkResponse
StatusHeld ==
    StatusOf(Reader([workResponse EXCEPT
                        !.Downloaded = Nil, !.Length = Nil, !.Error = Nil,
                        !.Pinned = Nil, !.Deleted = Nil,
                        !.Used = Nil, !.Avail = Nil]))

\* C33: once the work request has been posted, the node status in the
\* cycle's WorkResponse stays what the request carried, through every
\* directive, the fallback and repo/stat, and a posted report carries the
\* same email, version, identity, node version, online flag and peer count
C33_StatusUnchanged ==
    requestForm # {}
    => /\ Keys(StatusOf(requestForm)) = StatusKeys
       /\ StatusHeld = StatusOf(requestForm)
       /\ ReportAttempted => StatusOf(reportForm) = StatusOf(requestForm)

C33_Witness ==
    /\ pc = "returned"
    /\ ReportSent
    /\ Len(invoked) = 2
    /\ \E i \in StatCalls : ~calls[i].ok
    /\ StatusOf(reportForm) = StatusOf(requestForm)
    /\ <<"online", "true">> \in reportForm
    /\ <<"peers", "12">> \in reportForm


\* ------------------------------------------------- the answer to a report
\* the POSTs of the report that were answered
Answered == { i \in 1..Len(calls) : calls[i].op = "POST /response" /\ calls[i].ok }

\* C34: once a POST of the report has been answered, with 200 or with any
\* other status, it is the last call of the cycle and doWork has returned
\* without an error, "complete" exactly when every directive function it
\* called succeeded; and no work request carries an outcome field, so that
\* no later cycle sends the outcome again
C34_AnyAnswerCounts ==
    /\ \A i \in Answered :
          /\ i = Len(calls)
          /\ pc = "returned"
          /\ ret.err = ""
          /\ ret.complete <=> \A d \in Range(invoked) : Succeeded(d)
          /\ reportForm = Reader(workResponse)
    /\ Keys(requestForm) \cap OutcomeKeys = {}
    /\ pc = "nodeID" => workResponse = workRequest

C34_Witness ==
    /\ pc = "returned"
    /\ \E i \in Answered : calls[i].arg = "500"
    /\ invoked = <<"downloadOrPinFile", "pinDelete">>
    /\ ret.complete
    /\ {"downloaded", "deleted"} \subseteq Keys(reportForm)


\* ------------------------------------------------------ no roll-back of a pin
\* the pin/add calls that succeeded and whose ls then failed or answered
\* something else than one object with one link
PinnedUnresolved ==
    { i \in 1..(Len(calls) - 1) :
        /\ calls[i].op = "pin/add" /\ calls[i].ok
        /\ calls[i + 1].op = "ls"
        /\ ~calls[i + 1].ok \/ ~OneObjectOneLink(calls[i + 1].answer) }
\* the address of call i is unpinned later in the cycle
UnpinnedAfter(i) ==
    \E j \in (i + 1)..Len(calls) :
        calls[j].op = "pin/rm" /\ calls[j].arg = calls[i].arg

\* C35: after a pin/add that succeeded and an ls that failed or had an
\* unexpected shape, pinFile has returned an error and has not unpinned the
\* address: in the pin directive the error flag is set and Pinned is unset;
\* in the fallback the resolver goes on to its second GET
C35_PinNotRolledBack ==
    \A i \in PinnedUnresolved :
        /\ pc # "crashed"
        /\ ~UnpinnedAfter(i)
        /\ calls[i].ctx = "pin" =>
              workResponse.Pinned = Nil /\ workResponse.Error = Ptr(1)
        /\ calls[i].ctx = "download" =>
              \/ pc = "dl.get" /\ dlAttempt = 2
              \/ Cardinality(Gets) = 2


\* ------------------------------------------------------------ termination
\* the steps of doWork that are left at most, by where it stands
StepsLeft ==
    CASE pc = "nodeID" -> 23
      [] pc = "diagSys" -> 22
      [] pc = "getPeers" -> 21
      [] pc = "requestWork" -> 20
      [] pc = "download" -> 19
      [] pc = "dl.get" /\ dlAttempt = 1 -> 18
      [] pc = "dl.send" /\ dlAttempt = 1 -> 17
      [] pc = "dl.check" /\ dlAttempt = 1 -> 16
      [] pc = "dl.ls" /\ dlAttempt = 1 -> 15
      [] pc = "fallback" -> 14
      [] pc = "pf.add" /\ pfCtx = "download" -> 13
      [] pc = "pf.ls" /\ pfCtx = "download" -> 12
      [] pc = "dl.get" /\ dlAttempt = 2 -> 11
      [] pc = "dl.send" /\ dlAttempt = 2 -> 10
      [] pc = "dl.check" /\ dlAttempt = 2 -> 9
      [] pc = "dl.ls" /\ dlAttempt = 2 -> 8
      [] pc = "pin" -> 7
      [] pc = "pf.add" /\ pfCtx = "pin" -> 6
      [] pc = "pf.ls" /\ pfCtx = "pin" -> 5
      [] pc = "delete" -> 4
      [] pc = "pinDelete" -> 3
      [] pc = "repoStats" -> 2
      [] pc = "responseWork" -> 1
      [] OTHER -> 0
\* the steps the producer goroutine has left
ProducerLeft ==
    CASE prod = "create" -> 4
      [] prod = "copy" -> 3
      [] prod = "close" -> 2
      [] prod = "assign" -> 1
      [] OTHER -> 0
\* a bound on the steps left in the cycle: it counts the POSTs a retry loop
\* may still repeat and the steps of the producer
Measure == 10 * StepsLeft + retries + ProducerLeft
\* how many calls of the cycle were operation op on behalf of ctx
CallsOf(op, ctx) ==
    Cardinality({ i \in 1..Len(calls) : calls[i].op = op /\ calls[i].ctx = ctx })
\* the numbers of calls a cycle makes at most
CallBudget ==
    /\ failedPosts <= Retries + 1
    /\ pc \in {"requestWork", "responseWork"} => failedPosts + retries = Retries
    /\ CallsOf("POST /request", "request") <= 1
    /\ CallsOf("POST /response", "report") <= 1
    /\ CallsOf("GET", "download") <= 2
    /\ CallsOf("add", "download") <= 2
    /\ CallsOf("pin/add", "download") <= 1
    /\ CallsOf("ls", "download") <= 3
    /\ CallsOf("pin/add", "pin") <= 1
    /\ CallsOf("ls", "pin") <= 1
    /\ CallsOf("pin/rm", "delete") <= 1
    /\ CallsOf("repo/stat", "stats") <= 1
    /\ Len(calls) <= 16

\* C36: every step taken inside doWork, a retried POST and a step of the
\* producer included, lowers a bound on the steps that are left, so that a
\* cycle ends (doWork returns, or the process dies in a panic) after a
\* bounded number of steps; and a cycle makes at most Retries + 1 POSTs of
\* the work request, two GETs, two adds and one fallback pin for the
\* download, one pin, one unpin, one repo/stat and Retries + 1 POSTs of the
\* report
C36_CycleTerminates ==
    /\ [](CallBudget /\ Measure >= 0)
    /\ [][pc \notin {"loop", "returned", "crashed"} => Measure' < Measure]_vars

\* a cycle that used all it may use for the download and the report
C36_Witness ==
    /\ pc = "returned"
    /\ CallsOf("GET", "download") = 2
    /\ CallsOf("pin/add", "download") = 1
    /\ CallsOf("pin/rm", "delete") = 1
    /\ CallsOf("repo/stat", "stats") = 1
    /\ failedPosts = Retries + 1
    /\ ret.err = "post stats failed"


\* ------------------------------------------------- the producer's close
\* reqMultipart.Close() has run, with or without an error
CloseRan == boundary \/ closeRes
\* the producer goroutine is past io.Copy
PastCopy == prod \in {"close", "assign", "done"}

\* C37: in the producer goroutine of a downloadFile, reqMultipart.Close()
\* runs after io.Copy whenever CreateFormFile succeeded, also when io.Copy
\* failed; it has not run before io.Copy is over; and when CreateFormFile
\* failed the producer has ended without io.Copy and without Close, so that
\* the pipe never carries the closing boundary and the add is not answered
C37_CloseAfterCopy ==
    /\ (prod = "done" /\ ~mpwCreateFormFileErr) => CloseRan
    /\ (copyErr /\ PastCopy) => (prod = "close" \/ CloseRan)
    /\ prod \in {"none", "create", "copy", "close"} => ~CloseRan
    /\ mpwCreateFormFileErr =>
          /\ prod = "done"
          /\ ~copyErr /\ ~CloseRan /\ ~mpwCloseErr
          /\ pc \in {"dl.send", "dl.check"} => added = <<>>
          /\ pc = "dl.send"

\* io.Copy failed and Close then wrote the closing boundary
C37_Witness ==
    /\ prod = "done"
    /\ copyErr
    /\ boundary /\ ~mpwCloseErr
    /\ pc = "dl.check"


====
